---- MODULE Spec2Model ----
(***************************************************************************)
(* graphsense-cli: the instance lifecycle orchestrator.                    *)
(*                                                                         *)
(* Strings are tuples of one-character strings, so that the name and path  *)
(* conversions are computed character by character.  The container engine  *)
(* (docker, docker-compose) is the environment: its state is `containers`  *)
(* and `volumes`, its exit statuses are inputs of each operation.          *)
(***************************************************************************)
EXTENDS Integers, Sequences, FiniteSets, TLC

VARIABLES
    containers,   \* engine: project name -> [state, port] of its containers
    volumes,      \* engine: project names whose named volumes exist
    registry,     \* rows of the instances table (database.go:55-66)
    tmpFiles,     \* ephemeral artifact files present on the filesystem
    foreign,      \* host ports bound by processes other than the instances
    faults,       \* faults the environment has injected so far
    last,         \* outcome of the command that has just returned, if any
    inflight      \* deploys running side by side: where each one stands

vars == <<containers, volumes, registry, tmpFiles, foreign, faults, last, inflight>>

---------------------------------------------------------------------------
(* Bounds of the model. *)

\* faults the environment injects in one run of the model
MaxFaults == 1

---------------------------------------------------------------------------
(* Characters and strings. *)

UpperChars == <<"A","B","C","D","E","F","G","H","I","J","K","L","M",
                "N","O","P","Q","R","S","T","U","V","W","X","Y","Z">>
LowerChars == <<"a","b","c","d","e","f","g","h","i","j","k","l","m",
                "n","o","p","q","r","s","t","u","v","w","x","y","z">>
DigitChars == {"0","1","2","3","4","5","6","7","8","9"}
SpaceChars == {" ", "\t", "\n", "\r"}

LowerSet == {LowerChars[i] : i \in 1..Len(LowerChars)}

\* strings.ToLower, one character
ToLowerChar(c) ==
    IF \E i \in 1..Len(UpperChars) : UpperChars[i] = c
    THEN LowerChars[CHOOSE i \in 1..Len(UpperChars) : UpperChars[i] = c]
    ELSE c

\* strings.ToLower
ToLower(s) == [i \in 1..Len(s) |-> ToLowerChar(s[i])]

\* regexp.ReplaceAllString(s, "-") for a pattern [^keep]+ : every maximal run
\* of characters outside `keep` becomes one hyphen
RECURSIVE ReplaceRuns(_, _, _)
ReplaceRuns(s, keep, inRun) ==
    IF s = <<>> THEN <<>>
    ELSE IF s[1] \in keep
         THEN <<s[1]>> \o ReplaceRuns(Tail(s), keep, FALSE)
         ELSE (IF inRun THEN <<>> ELSE <<"-">>) \o ReplaceRuns(Tail(s), keep, TRUE)

\* strings.TrimLeft / TrimRight / Trim with a cutset
RECURSIVE TrimLeft(_, _)
TrimLeft(s, cut) ==
    IF s # <<>> /\ s[1] \in cut THEN TrimLeft(Tail(s), cut) ELSE s

RECURSIVE TrimRight(_, _)
TrimRight(s, cut) ==
    IF s # <<>> /\ s[Len(s)] \in cut
    THEN TrimRight(SubSeq(s, 1, Len(s) - 1), cut)
    ELSE s

Trim(s, cut) == TrimRight(TrimLeft(s, cut), cut)

\* strings.TrimSpace
TrimSpace(s) == Trim(s, SpaceChars)

---------------------------------------------------------------------------
(* Paths. *)

\* working directory of the process
Cwd == <<"/", "r">>

\* filepath.Clean on the paths drawn here (no ".", "..", or doubled
\* separator elements): trailing separators are dropped
Clean(p) ==
    IF p = <<>> THEN <<".">>
    ELSE LET q == TrimRight(p, {"/"}) IN IF q = <<>> THEN <<"/">> ELSE q

\* filepath.Abs
Abs(p) ==
    IF p # <<>> /\ p[1] = "/" THEN Clean(p) ELSE Clean(Cwd \o <<"/">> \o p)

\* filepath.Base
Base(p) ==
    IF p = <<>> THEN <<".">>
    ELSE LET q == TrimRight(p, {"/"}) IN
         IF q = <<>> THEN <<"/">>
         ELSE LET cuts == {i \in 1..Len(q) : q[i] = "/"}
                  from == IF cuts = {} THEN 1
                          ELSE 1 + CHOOSE i \in cuts : \A j \in cuts : j <= i
              IN SubSeq(q, from, Len(q))

\* directories present on the filesystem
Dirs == { <<"/", "r", "/", "X">> }

\* a variant that takes every path to exist
StatNotExist_Never(p) == FALSE

\* os.Stat(repoPath) reporting "does not exist" (deploy, line 41)
StatNotExist(p) == Abs(p) \notin Dirs

---------------------------------------------------------------------------
(* Instance names. *)

NamePrefix == <<"g","r","a","p","h","s","e","n","s","e","-">>

GenerateInstanceName(repoPath) ==
    LET repoName  == Base(repoPath)
        sanitized == ReplaceRuns(ToLower(repoName), LowerSet \cup DigitChars, FALSE)
    IN NamePrefix \o Trim(sanitized, {"-"})

SanitizeInstanceName(name) ==
    ReplaceRuns(ToLower(name), LowerSet \cup DigitChars \cup {"-"}, FALSE)

\* deploy, lines 45-57: the name deploy uses for (repoPath, instanceName)
DeployName(repoPath, instanceName) ==
    SanitizeInstanceName(
        IF instanceName = <<>> THEN GenerateInstanceName(Abs(repoPath))
        ELSE instanceName)

---------------------------------------------------------------------------
(* Inputs of the operations. *)

\* repository paths given to deploy: "X" (relative, /r/X exists) and "/n"
\* (no such directory)
ExistingRepoPaths == { <<"X">> }
MissingRepoPaths == { <<"/", "n">> }
RepoPaths == ExistingRepoPaths \cup MissingRepoPaths

\* instance names given to deploy; the empty string asks for a generated name
RawNames == { <<>>, <<"A">> }

\* --port values given to deploy; 0 is the flag's default
BasePorts == { 0, 65536 }

\* every compose project name the operations can address
Projects == { DeployName(p, n) : p \in ExistingRepoPaths, n \in RawNames }

\* no compose project: neither COMPOSE_PROJECT_NAME nor a compose file in
\* the working directory
NoProject == <<>>

\* ports a foreign process may hold
ForeignCandidates == { 8180 }

\* what the operator types at the prompt of remove (the whole of stdin)
Answers ==
    { <<"y", "\n">>, <<" ", "Y", "E", "S", " ", "\n">>,
      <<"\n">>, <<"y", "e", "p", "\n">>, <<"y">> }

\* the compose project of a docker-compose run that is given no
\* COMPOSE_PROJECT_NAME of its own: the one of the operator's shell
AmbientProjects == { NoProject } \cup Projects

---------------------------------------------------------------------------
(* Ports. *)

DefaultBasePort == 8080
PostgresOffset == 100
Neo4jOffset == 200
PortStep == 10
PortLimit == 65000

\* the three ports a configuration with app port `port` carries
PortTriple(port) == <<port, port + PostgresOffset, port + Neo4jOffset>>

TupleSet(t) == { t[i] : i \in 1..Len(t) }

\* ports bound on the host: foreign processes and every running instance.
\* Port 0 asks for any free port: nothing is ever bound at port 0 itself.
BoundPorts(S) ==
    (S.foreign \cup
     UNION { TupleSet(S.containers[n].ports) :
               n \in { m \in Projects : S.containers[m].state = "running" } })
    \ {0}

\* a probe that would also see the ports another deploy has picked and not
\* yet bound (the code has no such reservation)
isPortInUse_Reserved(port, S) ==
    \/ port < 0 \/ port > 65535 \/ port \in BoundPorts(S)
    \/ \E p \in DOMAIN inflight :
           /\ inflight[p].pc = "allocated"
           /\ port \in TupleSet(PortTriple(inflight[p].found.port))

\* net.Listen fails: the port is bound, or is no TCP port at all (":0"
\* listens on a port the system picks, so it succeeds)
isPortInUse(port, S) ==
    port < 0 \/ port > 65535 \/ port \in BoundPorts(S)

RECURSIVE PortSearch(_, _)
PortSearch(port, S) ==
    IF \/ isPortInUse(port, S)
       \/ isPortInUse(port + PostgresOffset, S)
       \/ isPortInUse(port + Neo4jOffset, S)
    THEN IF port + PortStep > PortLimit
         THEN [err |-> TRUE, port |-> 0]
         ELSE PortSearch(port + PortStep, S)
    ELSE [err |-> FALSE, port |-> port]

\* the candidate bases the same loop looks at, in order; every one but the
\* last has been rejected
RECURSIVE PortsTried(_, _)
PortsTried(port, S) ==
    IF \/ isPortInUse(port, S)
       \/ isPortInUse(port + PostgresOffset, S)
       \/ isPortInUse(port + Neo4jOffset, S)
    THEN IF port + PortStep > PortLimit
         THEN <<port>>
         ELSE <<port>> \o PortsTried(port + PortStep, S)
    ELSE <<port>>

\* a variant without the default for an absent base port
FindAvailablePortSet_NoDefault(basePort, S) == PortSearch(basePort, S)

FindAvailablePortSet(basePort, S) ==
    PortSearch(IF basePort = 0 THEN DefaultBasePort ELSE basePort, S)

---------------------------------------------------------------------------
(* The container engine. *)

Absent == [state |-> "absent", ports |-> <<0, 0, 0>>]

\* variants: existence read from the registry, or from running containers only
InstanceExists_Registry(instanceName, S, daemon) ==
    \E r \in S.registry : r.instanceName = instanceName

InstanceExists_Running(instanceName, S, daemon) ==
    /\ daemon
    /\ instanceName \in Projects
    /\ S.containers[instanceName].state = "running"

\* a variant that also takes a name with registry records to exist
InstanceExists_Either(instanceName, S, daemon) ==
    \/ /\ daemon
       /\ instanceName \in Projects
       /\ S.containers[instanceName].state # "absent"
    \/ \E r \in S.registry : r.instanceName = instanceName

\* docker ps -a --filter label=com.docker.compose.project=<name>; an error
\* of the command (daemon unreachable) reads as "does not exist"
InstanceExists(instanceName, S, daemon) ==
    /\ daemon
    /\ instanceName \in Projects
    /\ S.containers[instanceName].state # "absent"

\* verbs docker-compose knows; any other first argument is rejected
ComposeVerbs == { "up", "down", "stop", "start", "ps", "rm", "logs" }

\* RunDockerCompose(args, envVars) for the verbs that take no artifacts.
\* `project` is COMPOSE_PROJECT_NAME as the command sees it, `fine` is the
\* environment's verdict on the run.  A run that exits non-zero leaves the
\* engine as it was.
RunDockerCompose(S, verb, project, fine) ==
    LET c    == IF project \in Projects THEN S.containers[project] ELSE Absent
        free == TupleSet(c.ports) \cap BoundPorts(S) = {}
        ok   == /\ fine
                /\ verb \in ComposeVerbs
                /\ project # NoProject
                /\ (verb = "start" /\ c.state = "stopped") => free
        to   == CASE verb = "down" -> Absent
                  [] verb = "stop" /\ c.state = "running" -> [c EXCEPT !.state = "stopped"]
                  [] verb = "start" /\ c.state = "stopped" -> [c EXCEPT !.state = "running"]
                  [] verb = "rm" /\ c.state = "stopped" -> Absent
                  [] OTHER -> c
    IN [ ok |-> ok,
         S  |-> IF ok /\ project \in Projects
                THEN [S EXCEPT !.containers[project] = to,
                               !.volumes = IF verb = "down" THEN @ \ {project} ELSE @]
                ELSE S ]

\* docker-compose -f base -f override --env-file env up -d (deploy, 124-129).
\* `how` is "ok", "clean" (failed, nothing created) or "created" (failed
\* after the volumes and containers were created, none running).
ComposeUp(S, project, ports, how) ==
    LET free == TupleSet(ports)
                    \cap BoundPorts([S EXCEPT !.containers[project] = Absent]) = {}
        ok   == how = "ok" /\ free
        made == ok \/ how = "created" \/ (how = "ok" /\ ~free)
    IN [ ok |-> ok,
         S  |-> IF made
                THEN [S EXCEPT !.containers[project] =
                                   [state |-> IF ok THEN "running" ELSE "stopped",
                                    ports |-> ports],
                               !.volumes = @ \cup {project}]
                ELSE S ]

---------------------------------------------------------------------------
(* The instance registry (the instances table). *)

ContainerSuffixes == << <<"-","a","p","p">>,
                        <<"-","p","o","s","t","g","r","e","s">>,
                        <<"-","n","e","o","4","j">> >>

Row(config, containerName) ==
    [ instanceName  |-> config.InstanceName,
      containerName |-> containerName,
      repoPath      |-> config.RepoPath,
      appPort       |-> config.AppPort,
      postgresPort  |-> config.PostgresPort,
      neo4jBoltPort |-> config.Neo4jBoltPort ]

\* a variant: INSERT OR IGNORE, the row already under the key stays
InsertOrReplace_Ignore(rows, row) ==
    IF \E r \in rows : /\ r.instanceName = row.instanceName
                        /\ r.containerName = row.containerName
    THEN rows
    ELSE rows \cup {row}

\* a variant: a plain INSERT into a table without the UNIQUE constraint
InsertOrReplace_Append(rows, row) == rows \cup {row}

\* INSERT OR REPLACE under UNIQUE(instance_name, container_name)
InsertOrReplace(rows, row) ==
    { r \in rows : ~ (/\ r.instanceName = row.instanceName
                      /\ r.containerName = row.containerName) } \cup {row}

RECURSIVE InsertRows(_, _, _, _)
InsertRows(rows, config, i, n) ==
    IF i > n THEN rows
    ELSE InsertRows(
             InsertOrReplace(rows, Row(config, config.InstanceName \o ContainerSuffixes[i])),
             config, i + 1, n)

\* StoreInstanceContainers; failAt = -1: no failure, 0: InitDB fails,
\* k in 1..3: the k-th insert fails (the rows before it stay written)
StoreInstanceContainers(rows, config, failAt) ==
    LET n == IF failAt = -1 THEN Len(ContainerSuffixes)
             ELSE IF failAt = 0 THEN 0 ELSE failAt - 1
    IN [ err |-> failAt # -1, rows |-> InsertRows(rows, config, 1, n) ]

\* GetInstanceContainers
GetInstanceContainers(rows, instanceName) ==
    { r \in rows : r.instanceName = instanceName }

\* a variant: DELETE FROM instances without the WHERE clause
RemoveInstanceContainers_All(rows, instanceName, fine) ==
    [ rows   |-> {},
      ret    |-> [ err |-> FALSE ],
      logged |-> <<Cardinality(rows)>> ]

\* RemoveInstanceContainers: what it leaves in the table, the error it
\* returns (its only result) and the count it logs; `fine` is whether InitDB
\* and the DELETE go through
RemoveInstanceContainers(rows, instanceName, fine) ==
    IF ~fine
    THEN [ rows |-> rows, ret |-> [ err |-> TRUE ], logged |-> <<>> ]
    ELSE [ rows   |-> { r \in rows : r.instanceName # instanceName },
           ret    |-> [ err |-> FALSE ],
           logged |-> <<Cardinality({ r \in rows : r.instanceName = instanceName })>> ]

---------------------------------------------------------------------------
(* Ephemeral artifacts. *)

\* os.CreateTemp: a name no file on disk has
FreshTmp(files, kind) ==
    <<kind, CHOOSE n \in 0..Cardinality(files) :
                /\ <<kind, n>> \notin files
                /\ \A m \in 0..(n - 1) : <<kind, m>> \in files>>

\* CreateTempEnvFile / CreateComposeOverride; how = "ok", "create" (CreateTemp
\* fails) or "write" (WriteString fails: the file stays on disk, its name is
\* not returned)
CreateTempFile(files, kind, how) ==
    IF how = "create" THEN [ err |-> TRUE, path |-> <<>>, files |-> files ]
    ELSE LET f == FreshTmp(files, kind) IN
         [ err   |-> how = "write",
           path  |-> IF how = "write" THEN <<>> ELSE f,
           files |-> files \cup {f} ]

---------------------------------------------------------------------------
(* The state an operation works on, and what it returns. *)

State ==
    [ containers |-> containers, volumes |-> volumes, registry |-> registry,
      tmpFiles |-> tmpFiles, foreign |-> foreign ]

\* an operation's outcome: the state it leaves, the instance name it used,
\* the return statement it left by, whether that returned an error, the
\* docker-compose runs it made, the warnings it logged, and the ports it
\* reported to the operator (none, unless said otherwise)
\* no health probe has run
NoProbe == [ err |-> FALSE, polled |-> 0, healthy |-> FALSE ]

Return(S, name, exit, err, calls, warn) ==
    [ S |-> S, name |-> name, exit |-> exit, err |-> err, calls |-> calls,
      warn |-> warn, report |-> <<>>, health |-> NoProbe ]

Reporting(r, ports) == [ r EXCEPT !.report = ports ]

Call(verb, project, ok) == [ verb |-> verb, project |-> project, ok |-> ok ]

---------------------------------------------------------------------------
(* The health probe. *)

\* what one poll (docker-compose ps) can give: the command fails, its output
\* has no "Up" in it, or it has
PollOutcomes == { "error", "down", "up" }

\* polls deploy allows the probe (part_000, line 135)
HealthAttempts == 60

\* the polls the environment answers: the first ones one by one, every
\* later one alike
PollAt(polls, i) == IF i <= Len(polls.first) THEN polls.first[i] ELSE polls.rest

HealthyAtOnce == [ first |-> <<>>, rest |-> "up" ]

\* the loop of WaitForHealthy from `attempt` on
RECURSIVE WaitLoop(_, _, _)
WaitLoop(polls, attempt, maxAttempts) ==
    IF attempt >= maxAttempts
    THEN [ err |-> FALSE, polled |-> attempt, healthy |-> FALSE ]
    ELSE IF PollAt(polls, attempt + 1) = "up"
    THEN [ err |-> FALSE, polled |-> attempt + 1, healthy |-> TRUE ]
    ELSE WaitLoop(polls, attempt + 1, maxAttempts)

WaitForHealthy(polls, maxAttempts) == WaitLoop(polls, 0, maxAttempts)

---------------------------------------------------------------------------
(* What the environment does to one operation. *)

BoolCount(b) == IF b THEN 1 ELSE 0

DeployEnvAll ==
    [ daemon   : BOOLEAN,                     \* docker reaches its daemon
      keys     : BOOLEAN,                     \* ~/.graphsense/.env is there
      envFile  : {"ok", "create", "write"},   \* CreateTempEnvFile
      override : {"ok", "create", "write"},   \* CreateComposeOverride
      compose  : BOOLEAN,                     \* the base docker-compose.yml is there
      up       : {"ok", "clean", "created"},  \* docker-compose up -d
      store    : -1..3,                       \* StoreInstanceContainers
      health   : { HealthyAtOnce } ]          \* the polls of WaitForHealthy

DeployFaults(e) ==
    BoolCount(~e.daemon) + BoolCount(~e.keys) + BoolCount(e.envFile # "ok")
    + BoolCount(e.override # "ok") + BoolCount(~e.compose)
    + BoolCount(e.up # "ok") + BoolCount(e.store # -1)

\* an answer of the environment that the operation never asks for is left
\* at its default: deploy returns at the first of keys, envFile, override,
\* compose and up that fails, and without the daemon up cannot succeed
DeployAsked(e) ==
    LET rest == <<e.keys, e.envFile = "ok", e.override = "ok", e.compose,
                  e.up = "ok", e.store = -1>>
    IN /\ \A i \in 1..5 : ~rest[i] => \A j \in (i + 1)..6 : rest[j]
       /\ ~e.daemon => rest[5] /\ rest[6]

DeployEnvs ==
    { e \in DeployEnvAll : DeployFaults(e) <= MaxFaults /\ DeployAsked(e) }

\* stop and start: the daemon, and the exit status of the one compose run
RunEnvAll == [ daemon : BOOLEAN, run : BOOLEAN ]

RunFaults(e) == BoolCount(~e.daemon) + BoolCount(~e.run)

RunEnvs == { e \in RunEnvAll : RunFaults(e) <= MaxFaults /\ (~e.daemon => e.run) }

RemoveEnvAll ==
    [ daemon  : BOOLEAN,
      stdin   : Answers,            \* what the prompt reads
      down    : BOOLEAN,            \* docker-compose down -v --remove-orphans
      ambient : AmbientProjects,    \* project of the runs without envVars
      ps      : BOOLEAN,            \* docker-compose ps -a --filter ... -q
      rm      : BOOLEAN ]           \* docker-compose rm -f

RemoveFaults(e) ==
    BoolCount(~e.daemon) + BoolCount(~e.down) + BoolCount(~e.ps) + BoolCount(~e.rm)

\* remove reads the prompt only for an instance it found, runs ps only
\* after a failed down, and rm only after that ps exited zero
RemoveAsked(e) ==
    /\ ~e.daemon => e.stdin = <<"\n">> /\ e.down
    /\ e.down => e.ambient = NoProject /\ e.ps
    /\ e.ps => TRUE
    /\ ~e.ps => e.rm

RemoveEnvs ==
    { e \in RemoveEnvAll : RemoveFaults(e) <= MaxFaults /\ RemoveAsked(e) }

---------------------------------------------------------------------------
(* deploy *)

\* a variant that renders the two database ports in each other's place
EnvFileContent_Swapped(config) ==
    [ REPO_PATH |-> config.RepoPath, PORT |-> config.AppPort,
      POSTGRES_PORT |-> config.Neo4jBoltPort,
      NEO4J_BOLT_PORT |-> config.PostgresPort ]

\* what CreateTempEnvFile renders of the configuration
EnvFileContent(config) ==
    [ REPO_PATH |-> config.RepoPath, PORT |-> config.AppPort,
      POSTGRES_PORT |-> config.PostgresPort,
      NEO4J_BOLT_PORT |-> config.Neo4jBoltPort ]

\* what CreateComposeOverride renders of the configuration
OverrideContent(config) ==
    [ project |-> config.InstanceName, repo |-> config.RepoPath,
      published |-> config.AppPort ]

\* a variant: a store failure fails the deploy and takes the instance down
deployStore_RollsBack(S, config, call, st) ==
    IF st.err
    THEN Return(RunDockerCompose([S EXCEPT !.registry = st.rows], "down",
                                 config.InstanceName, TRUE).S,
                config.InstanceName, "store", TRUE,
                call \o <<Call("down", config.InstanceName, TRUE)>>, {})
    ELSE Reporting(Return([S EXCEPT !.registry = st.rows], config.InstanceName,
                          "ok", FALSE, call, {}),
                   <<config.AppPort, config.PostgresPort, config.Neo4jBoltPort>>)

\* lines 139-150: registry, report
deployStore(S, config, call, st) ==
    Reporting(Return([S EXCEPT !.registry = st.rows], config.InstanceName, "ok",
                     FALSE, call, IF st.err THEN {"store"} ELSE {}),
              <<config.AppPort, config.PostgresPort, config.Neo4jBoltPort>>)

\* what the probe adds to the outcome: its result, and the warning of a
\* probe that ran out of polls (docker.go 275) or failed (part_000 136)
Probed(r, h) ==
    [ r EXCEPT !.health = h,
               !.warn = @ \cup (IF h.healthy /\ ~h.err THEN {} ELSE {"health"}) ]

\* a variant in which an instance that never got healthy fails the deploy
deployHealth_Fatal(S, config, call, st, h) ==
    IF h.err \/ ~h.healthy
    THEN Probed(Return(S, config.InstanceName, "health", TRUE, call, {}), h)
    ELSE Probed(deployStore(S, config, call, st), h)

\* lines 134-142: the probe, whose result changes nothing but a warning
deployHealth(S, config, call, st, h) ==
    Probed(deployStore(S, config, call, st), h)

\* a variant that writes the registry before it looks at the outcome of up
deployUp_StoresFirst(S, config, swept, up, e) ==
    IF ~up.ok
    THEN Return([up.S EXCEPT !.tmpFiles = swept,
                             !.registry = StoreInstanceContainers(S.registry, config,
                                                                  e.store).rows],
                config.InstanceName, "up", TRUE,
                <<Call("up", config.InstanceName, FALSE)>>, {})
    ELSE deployHealth([up.S EXCEPT !.tmpFiles = swept], config,
                      <<Call("up", config.InstanceName, TRUE)>>,
                      StoreInstanceContainers(S.registry, config, e.store),
                      WaitForHealthy(e.health, HealthAttempts))

\* lines 130-132, after the deferred removals of both artifacts
deployUp(S, config, swept, up, e) ==
    IF ~up.ok
    THEN Return([up.S EXCEPT !.tmpFiles = swept], config.InstanceName, "up", TRUE,
                <<Call("up", config.InstanceName, FALSE)>>, {})
    ELSE deployHealth([up.S EXCEPT !.tmpFiles = swept], config,
                      <<Call("up", config.InstanceName, TRUE)>>,
                      StoreInstanceContainers(S.registry, config, e.store),
                      WaitForHealthy(e.health, HealthAttempts))

\* lines 106-129: the base compose file, then docker-compose up -d with the
\* two artifacts; the engine binds what the artifacts say
deployCompose(S, config, swept, env, over, e) ==
    IF ~e.compose
    THEN Return([S EXCEPT !.tmpFiles = swept], config.InstanceName, "nocompose",
                TRUE, <<>>, {})
    ELSE deployUp(S, config, swept,
                  ComposeUp(S, over.project,
                            <<over.published, env.POSTGRES_PORT, env.NEO4J_BOLT_PORT>>,
                            IF e.daemon THEN e.up ELSE "clean"),
                  e)

\* lines 101-104; the deferred os.Remove(envFile) runs on every later return
deployOverride(S, config, envF, ovr, e) ==
    IF ovr.err
    THEN Return([S EXCEPT !.tmpFiles = ovr.files \ {envF.path}],
                config.InstanceName, "override", TRUE, <<>>, {})
    ELSE deployCompose(S, config, ovr.files \ {ovr.path, envF.path},
                       EnvFileContent(config), OverrideContent(config), e)

\* lines 94-100
deployEnvFile(S, config, envF, e) ==
    IF envF.err
    THEN Return([S EXCEPT !.tmpFiles = envF.files], config.InstanceName,
                "envfile", TRUE, <<>>, {})
    ELSE deployOverride(S, config, envF,
                        CreateTempFile(envF.files, "compose", e.override), e)

\* a variant that looks for the name's containers once more before it goes on
deployPorts_Rechecks(S, absRepoPath, instanceName, found, e) ==
    IF InstanceExists(instanceName, S, e.daemon)
    THEN Return(S, instanceName, "exists", TRUE, <<>>, {})
    ELSE IF found.err
    THEN Return(S, instanceName, "noports", TRUE, <<>>, {})
    ELSE IF ~e.keys
    THEN Return(S, instanceName, "nokeys", TRUE, <<>>, {})
    ELSE deployEnvFile(S,
                       [ RepoPath      |-> absRepoPath,
                         InstanceName  |-> instanceName,
                         AppPort       |-> found.port,
                         PostgresPort  |-> found.port + PostgresOffset,
                         Neo4jBoltPort |-> found.port + Neo4jOffset ],
                       CreateTempFile(S.tmpFiles, "env", e.envFile), e)

\* lines 68-93
deployPorts(S, absRepoPath, instanceName, found, e) ==
    IF found.err
    THEN Return(S, instanceName, "noports", TRUE, <<>>, {})
    ELSE IF ~e.keys
    THEN Return(S, instanceName, "nokeys", TRUE, <<>>, {})
    ELSE deployEnvFile(S,
                       [ RepoPath      |-> absRepoPath,
                         InstanceName  |-> instanceName,
                         AppPort       |-> found.port,
                         PostgresPort  |-> found.port + PostgresOffset,
                         Neo4jBoltPort |-> found.port + Neo4jOffset ],
                       CreateTempFile(S.tmpFiles, "env", e.envFile), e)

\* lines 59-67
deployNamed(S, absRepoPath, instanceName, basePort, e) ==
    IF InstanceExists(instanceName, S, e.daemon)
    THEN Return(S, instanceName, "exists", TRUE, <<>>, {})
    ELSE deployPorts(S, absRepoPath, instanceName,
                     FindAvailablePortSet(basePort, S), e)

\* lines 39-57
deployInstance(S, repoPath, instanceName, basePort, e) ==
    IF StatNotExist(repoPath)
    THEN Return(S, instanceName, "nopath", TRUE, <<>>, {})
    ELSE deployNamed(S, Abs(repoPath), DeployName(repoPath, instanceName),
                     basePort, e)

---------------------------------------------------------------------------
(* stop, start *)

\* a variant that reports success whatever the run's exit status
ranVerb_IgnoreExit(verb, instanceName, r) ==
    Return(r.S, instanceName, "ok", FALSE, <<Call(verb, instanceName, r.ok)>>, {})

\* the one compose run of stop (lines 57-65) and of start (lines 80-88)
ranVerb(verb, instanceName, r) ==
    Return(r.S, instanceName, IF r.ok THEN "ok" ELSE verb, ~r.ok,
           <<Call(verb, instanceName, r.ok)>>, {})

stopInstance(S, instanceName, e) ==
    IF ~InstanceExists(instanceName, S, e.daemon)
    THEN Return(S, instanceName, "notfound", TRUE, <<>>, {})
    ELSE ranVerb("stop", instanceName,
                 RunDockerCompose(S, "stop", instanceName, e.run))

startInstance(S, instanceName, e) ==
    IF ~InstanceExists(instanceName, S, e.daemon)
    THEN Return(S, instanceName, "notfound", TRUE, <<>>, {})
    ELSE ranVerb("start", instanceName,
                 RunDockerCompose(S, "start", instanceName, e.run))

---------------------------------------------------------------------------
(* remove *)

\* bufio.Reader.ReadString('\n'): the line with its delimiter, or what is
\* left of the input and an error when no delimiter comes
ReadString(input) ==
    LET ends == { i \in 1..Len(input) : input[i] = "\n" } IN
    IF ends = {} THEN [ line |-> input, err |-> TRUE ]
    ELSE [ line |-> SubSeq(input, 1, CHOOSE i \in ends : \A j \in ends : i <= j),
           err  |-> FALSE ]

\* a variant that takes the empty answer for a yes
Confirmed_DefaultYes(response) ==
    TrimSpace(ToLower(response)) \in { <<>>, <<"y">>, <<"y", "e", "s">> }

\* lines 105-106
Confirmed(response) ==
    LET r == TrimSpace(ToLower(response)) IN
    r = <<"y">> \/ r = <<"y", "e", "s">>

\* lines 132-139: "volume" is the first argument of the docker-compose run
removeVolumes(S, instanceName, e, calls, warn, vol) ==
    Return(vol.S, instanceName, "removed", FALSE,
           calls \o <<Call("volume", e.ambient, vol.ok)>>, warn)

\* lines 128-129, after ps exited zero
removeSwept(instanceName, e, calls, rm) ==
    removeVolumes(rm.S, instanceName, e,
                  calls \o <<Call("rm", e.ambient, rm.ok)>>, {"down"},
                  RunDockerCompose(rm.S, "volume", e.ambient, TRUE))

\* lines 122-127: the manual cleanup, run with no envVars
removeSweep(S, instanceName, e, calls, ps) ==
    IF ps.ok
    THEN removeSwept(instanceName, e, calls \o <<Call("ps", e.ambient, TRUE)>>,
                     RunDockerCompose(ps.S, "rm", e.ambient, e.rm))
    ELSE removeVolumes(ps.S, instanceName, e,
                       calls \o <<Call("ps", e.ambient, FALSE)>>, {"down"},
                       RunDockerCompose(ps.S, "volume", e.ambient, TRUE))

\* lines 121-130
removeDown(instanceName, e, down) ==
    IF down.ok
    THEN removeVolumes(down.S, instanceName, e,
                       <<Call("down", instanceName, TRUE)>>, {},
                       RunDockerCompose(down.S, "volume", e.ambient, TRUE))
    ELSE removeSweep(down.S, instanceName, e,
                     <<Call("down", instanceName, FALSE)>>,
                     RunDockerCompose(down.S, "ps", e.ambient, e.ps))

\* lines 100-120
removeAnswered(S, instanceName, e, rd) ==
    IF rd.err
    THEN Return(S, instanceName, "read", TRUE, <<>>, {})
    ELSE IF ~Confirmed(rd.line)
    THEN Return(S, instanceName, "cancelled", FALSE, <<>>, {})
    ELSE removeDown(instanceName, e,
                    RunDockerCompose(S, "down", instanceName, e.down))

\* lines 91-99
removeInstance(S, instanceName, e) ==
    IF ~InstanceExists(instanceName, S, e.daemon)
    THEN Return(S, instanceName, "notfound", TRUE, <<>>, {})
    ELSE removeAnswered(S, instanceName, e, ReadString(e.stdin))

---------------------------------------------------------------------------
(* cleanup *)

\* lines 33-34
cleanupDone(c, v) ==
    Return(v.S, <<>>, "ok", FALSE,
           <<Call("container", NoProject, c.ok), Call("volume", NoProject, v.ok)>>,
           (IF c.ok THEN {} ELSE {"containers"}) \cup (IF v.ok THEN {} ELSE {"volumes"}))

\* a variant that gives up when the container prune has failed
cleanupVolumes_GivesUp(c) ==
    IF c.ok
    THEN cleanupDone(c, RunDockerCompose(c.S, "volume", NoProject, TRUE))
    ELSE Return(c.S, <<>>, "containers", TRUE,
                <<Call("container", NoProject, FALSE)>>, {"containers"})

\* lines 27-31
cleanupVolumes(c) ==
    cleanupDone(c, RunDockerCompose(c.S, "volume", NoProject, TRUE))

\* a variant that prunes through docker itself: every stopped container goes
cleanup_Prunes(S) ==
    Return([S EXCEPT !.containers =
                [n \in Projects |-> IF @[n].state = "stopped" THEN Absent ELSE @[n]]],
           <<>>, "ok", FALSE, <<>>, {})

\* lines 18-25
cleanup(S) ==
    cleanupVolumes(RunDockerCompose(S, "container", NoProject, TRUE))

---------------------------------------------------------------------------
(* The state machine: one action per command. *)

\* every command is one run of the program, started from the shell when no
\* other is running (section 5: one sequential flow, no internal parallelism).
\* `last` keeps, of the command that has just returned: its arguments, what
\* the environment answered, the state it started from and its outcome.
NoCommand == [ op |-> "none" ]

\* the processes that may run deploy side by side
Procs == { "p1", "p2" }

\* no deploy is under way
NoneInFlight == [ p \in Procs |-> [ pc |-> "idle" ] ]

AtShell == last.op = "none"

MayInject(injected) == AtShell /\ faults + injected <= MaxFaults

Finish(op, args, e, r, injected) ==
    /\ faults' = faults + injected
    /\ containers' = r.S.containers
    /\ volumes' = r.S.volumes
    /\ registry' = r.S.registry
    /\ tmpFiles' = r.S.tmpFiles
    /\ foreign' = r.S.foreign
    /\ inflight' = inflight
    /\ last' = [ op |-> op, args |-> args, env |-> e, before |-> State,
                 name |-> r.name, exit |-> r.exit, err |-> r.err,
                 calls |-> r.calls, warn |-> r.warn, report |-> r.report,
                 health |-> r.health ]

Init ==
    /\ containers = [ n \in Projects |-> Absent ]
    /\ volumes = {}
    /\ registry = {}
    /\ tmpFiles = {}
    /\ foreign \in { {}, ForeignCandidates }
    /\ faults = 0
    /\ last = NoCommand
    /\ inflight = NoneInFlight

Deploy ==
    \E repoPath \in RepoPaths, instanceName \in RawNames,
       basePort \in BasePorts, e \in DeployEnvs :
        /\ MayInject(DeployFaults(e))
        /\ \E r \in { deployInstance(State, repoPath, instanceName, basePort, e) } :
               Finish("deploy",
                      [ repoPath |-> repoPath, instanceName |-> instanceName,
                        basePort |-> basePort ],
                      e, r, DeployFaults(e))

Stop ==
    \E instanceName \in Projects, e \in RunEnvs :
        /\ MayInject(RunFaults(e))
        /\ \E r \in { stopInstance(State, instanceName, e) } :
               Finish("stop", [ instanceName |-> instanceName ], e, r, RunFaults(e))

Start ==
    \E instanceName \in Projects, e \in RunEnvs :
        /\ MayInject(RunFaults(e))
        /\ \E r \in { startInstance(State, instanceName, e) } :
               Finish("start", [ instanceName |-> instanceName ], e, r, RunFaults(e))

Remove ==
    \E instanceName \in Projects, e \in RemoveEnvs :
        /\ MayInject(RemoveFaults(e))
        /\ \E r \in { removeInstance(State, instanceName, e) } :
               Finish("remove", [ instanceName |-> instanceName ], e, r,
                      RemoveFaults(e))

Cleanup ==
    /\ MayInject(0)
    /\ \E r \in { cleanup(State) } :
           Finish("cleanup", [ none |-> TRUE ], [ none |-> TRUE ], r, 0)

\* the command's process has exited and the operator is back at the shell
Exit ==
    /\ ~AtShell
    /\ last' = NoCommand
    /\ UNCHANGED <<containers, volumes, registry, tmpFiles, foreign, faults, inflight>>

Next == Deploy \/ Stop \/ Start \/ Remove \/ Cleanup \/ Exit

Spec == Init /\ [][Next]_vars

---------------------------------------------------------------------------
(* The port allocator on its own: FindAvailablePortSet applied to a base   *)
(* port on a host where other processes hold some ports.                   *)

\* ports other processes may hold when the allocator runs
OccupiedCandidates == { 100, 8080, 8180, 8290, 64995 }

\* base ports handed to the allocator (the --port flag is any int)
AllocBases == { 0, -10, 8080, 8090, 64995, 65336, 65536 }

\* a busy host: ten services listen on the default port and the nine after it
BusyRow == { DefaultBasePort + PortStep * k : k \in 0..9 }

InitAlloc ==
    /\ containers = [ n \in Projects |-> Absent ]
    /\ volumes = {}
    /\ registry = {}
    /\ tmpFiles = {}
    /\ foreign \in (SUBSET OccupiedCandidates) \cup { BusyRow }
    /\ faults = 0
    /\ last = NoCommand
    /\ inflight = NoneInFlight

Allocate ==
    /\ AtShell
    /\ \E basePort \in AllocBases :
           last' = [ op |-> "allocate", args |-> [ basePort |-> basePort ],
                     before |-> State,
                     found |-> FindAvailablePortSet(basePort, State) ]
    /\ UNCHANGED <<containers, volumes, registry, tmpFiles, foreign, faults, inflight>>

NextAlloc == Allocate

SpecAlloc == InitAlloc /\ [][NextAlloc]_vars

---------------------------------------------------------------------------
(* Two deploy processes side by side.  Each is one run of deployInstance;  *)
(* the other process can run between its port search (line 67) and its     *)
(* docker-compose up (line 124).  Nothing else fails in these runs.         *)

\* the environment of a deploy in which nothing fails
DeployFine ==
    [ daemon |-> TRUE, keys |-> TRUE, envFile |-> "ok", override |-> "ok",
      compose |-> TRUE, up |-> "ok", store |-> -1, health |-> HealthyAtOnce ]

InitRace ==
    /\ containers = [ n \in Projects |-> Absent ]
    /\ volumes = {}
    /\ registry = {}
    /\ tmpFiles = {}
    /\ foreign \in SUBSET OccupiedCandidates
    /\ faults = 0
    /\ last = NoCommand
    /\ inflight = NoneInFlight

\* lines 39-64 of one process: the path, the name and the existence check,
\* on the host as it is now
RaceCheck ==
    \E p \in Procs, repoPath \in ExistingRepoPaths, instanceName \in RawNames :
        \E name \in { DeployName(repoPath, instanceName) } :
            /\ inflight[p].pc = "idle"
            /\ inflight' = [ inflight EXCEPT ![p] =
                               IF InstanceExists(name, State, TRUE)
                               THEN [ pc |-> "returned", name |-> name,
                                      found |-> [ err |-> TRUE, port |-> 0 ],
                                      err |-> TRUE, exit |-> "exists",
                                      calls |-> <<>>, existed |-> TRUE,
                                      passed |-> FALSE ]
                               ELSE [ pc |-> "checked", name |-> name,
                                      repoPath |-> Abs(repoPath) ] ]
            /\ UNCHANGED <<containers, volumes, registry, tmpFiles, foreign,
                           faults, last>>

\* lines 66-70 of the same process: the port search, on the host as it is by
\* then
RaceAllocate ==
    \E p \in Procs :
        /\ inflight[p].pc = "checked"
        /\ inflight' = [ inflight EXCEPT ![p] =
                           [ pc       |-> "allocated",
                             name     |-> inflight[p].name,
                             repoPath |-> inflight[p].repoPath,
                             found    |-> FindAvailablePortSet(0, State) ] ]
        /\ UNCHANGED <<containers, volumes, registry, tmpFiles, foreign,
                       faults, last>>

\* lines 68-150 of the same process, on the host as it is by then; `existed`
\* keeps whether the name had containers when this step began, `passed` that
\* the process had found no containers of the name at line 62
RaceUp ==
    \E p \in Procs :
        /\ inflight[p].pc = "allocated"
        /\ \E r \in { deployPorts(State, inflight[p].repoPath, inflight[p].name,
                                   inflight[p].found, DeployFine) } :
               /\ containers' = r.S.containers
               /\ volumes' = r.S.volumes
               /\ registry' = r.S.registry
               /\ tmpFiles' = r.S.tmpFiles
               /\ foreign' = r.S.foreign
               /\ inflight' = [ inflight EXCEPT ![p] =
                                  [ pc      |-> "returned",
                                    name    |-> inflight[p].name,
                                    found   |-> inflight[p].found,
                                    err     |-> r.err,
                                    exit    |-> r.exit,
                                    calls   |-> r.calls,
                                    existed |-> containers[inflight[p].name].state
                                                    # "absent",
                                    passed  |-> TRUE ] ]
        /\ UNCHANGED <<faults, last>>

NextRace == RaceCheck \/ RaceAllocate \/ RaceUp

SpecRace == InitRace /\ [][NextRace]_vars

---------------------------------------------------------------------------
(* The instance name alone: lines 45-57 of deployInstance applied to one   *)
(* repository path and one name argument.                                   *)

\* repository paths (directories that exist), relative to /r or absolute
NamePaths ==
    { <<"X">>, <<"X", "/">>, <<"/", "r", "/", "X">>, <<"/", "o", "/", "X">>,
      <<"M", "y", "_", "R", "e", "p", "o">>, <<"a", ".", "b">>,
      <<"_", "x", "_">>, <<"_">>, <<"/">> }

\* characters of a name argument, and the arguments: at most two of them
\* (the empty one is "no name supplied")
NameChars == { "a", "B", "1", "-", "!" }
NameArgs ==
    { <<>> } \cup { <<c>> : c \in NameChars }
             \cup { <<c, d>> : c \in NameChars, d \in NameChars }

InitName ==
    /\ containers = [ n \in Projects |-> Absent ]
    /\ volumes = {}
    /\ registry = {}
    /\ tmpFiles = {}
    /\ foreign = {}
    /\ faults = 0
    /\ last = NoCommand
    /\ inflight = NoneInFlight

Name ==
    /\ AtShell
    /\ \E repoPath \in NamePaths, instanceName \in NameArgs :
           last' = [ op   |-> "name",
                     args |-> [ repoPath |-> repoPath, instanceName |-> instanceName ],
                     name |-> DeployName(repoPath, instanceName) ]
    /\ UNCHANGED <<containers, volumes, registry, tmpFiles, foreign, faults, inflight>>

NextName == Name

SpecName == InitName /\ [][NextName]_vars

---------------------------------------------------------------------------
(* The health probe of deploy: one deploy in which nothing fails, while    *)
(* the polls of the probe answer in every way.                             *)

\* the first two polls as they come, every later poll alike
PollEnvs ==
    [ first : { <<>> } \cup { <<a>> : a \in PollOutcomes }
                      \cup { <<a, b>> : a \in PollOutcomes, b \in PollOutcomes },
      rest  : PollOutcomes ]

InitHealth ==
    /\ containers = [ n \in Projects |-> Absent ]
    /\ volumes = {}
    /\ registry = {}
    /\ tmpFiles = {}
    /\ foreign \in { {}, ForeignCandidates }
    /\ faults = 0
    /\ last = NoCommand
    /\ inflight = NoneInFlight

DeployProbed ==
    /\ AtShell
    /\ \E repoPath \in ExistingRepoPaths, instanceName \in RawNames,
          polls \in PollEnvs :
           \E e \in { [ DeployFine EXCEPT !.health = polls ] } :
               \E r \in { deployInstance(State, repoPath, instanceName, 0, e) } :
                   Finish("deploy",
                          [ repoPath |-> repoPath, instanceName |-> instanceName,
                            basePort |-> 0 ],
                          e, r, 0)

NextHealth == DeployProbed

SpecHealth == InitHealth /\ [][NextHealth]_vars

---------------------------------------------------------------------------
(* Properties.  `last` is the command that has just returned: last.before  *)
(* is the state it started from, the variables are the state it left.      *)

Returned(op) == last.op = op

\* exists(name) as the engine holds it: containers labelled with the project
Exists(S, name) == name \in Projects /\ S.containers[name].state # "absent"

\* the engine side of a state, and the registry
Engine(S) == <<S.containers, S.volumes>>

RecordPorts(r) == { r.appPort, r.postgresPort, r.neo4jBoltPort }

\* answers that are a complete line reading y or yes, in any case
AcceptLines == { <<"y", "\n">>, <<" ", "Y", "E", "S", " ", "\n">> }

\* a remove that was confirmed and ran to its end
ConfirmedRemove ==
    /\ Returned("remove")
    /\ Exists(last.before, last.args.instanceName)
    /\ last.env.daemon
    /\ last.env.stdin \in AcceptLines

\* C1: no two distinct instance names with records in the registry share a
\* port: the sets {appPort, postgresPort, neo4jBoltPort} of two different
\* instances are disjoint in every reachable state.
C1_RegistryPortsDisjoint ==
    \A r1 \in registry : \A r2 \in registry :
        r1.instanceName # r2.instanceName
            => RecordPorts(r1) \cap RecordPorts(r2) = {}

\* C2: after a confirmed remove(name) has run to completion the registry
\* holds no record whose instanceName is name, whether down succeeded or
\* failed.
C2_RemoveClearsRegistry ==
    ConfirmedRemove =>
        GetInstanceContainers(registry, last.args.instanceName) = {}

\* C3: whenever a confirmed remove(name) returns without error, exists(name)
\* is false in the state it leaves.
C3_RemovedNotExists ==
    (ConfirmedRemove /\ ~last.err) => ~Exists(State, last.args.instanceName)

\* the runs of the fallback sweep (ps, then rm) both exited zero
SweepSucceeded ==
    /\ \E i \in 1..Len(last.calls) : last.calls[i].verb = "ps" /\ last.calls[i].ok
    /\ \E i \in 1..Len(last.calls) : last.calls[i].verb = "rm" /\ last.calls[i].ok

\* C4: when down fails during a confirmed remove(name), remove runs the
\* manual sweep, and if the sweep succeeds exists(name) is false when remove
\* returns.
C4_SweepRemoves ==
    (ConfirmedRemove /\ ~last.env.down) =>
        /\ ~last.err
        /\ SweepSucceeded => ~Exists(State, last.args.instanceName)

\* C5: deploy on a repository path that does not exist returns an error and
\* leaves the engine, the registry and the filesystem as they were, with no
\* docker-compose run made.
C5_MissingPathNoEffect ==
    (Returned("deploy") /\ last.args.repoPath \in MissingRepoPaths) =>
        /\ last.err
        /\ last.calls = <<>>
        /\ State = last.before

C5_Witness ==
    /\ Returned("deploy")
    /\ last.args.repoPath \in MissingRepoPaths
    /\ last.before.registry # {}
    /\ last.err

\* C6: deploy with a name whose containers the engine already holds, running
\* or stopped, returns an error and leaves the engine, the registry and the
\* filesystem as they were, with no docker-compose run made.
C6_ExistingNameNoEffect ==
    (/\ Returned("deploy")
     /\ last.env.daemon
     /\ Exists(last.before,
               DeployName(last.args.repoPath, last.args.instanceName))) =>
        /\ last.err
        /\ last.calls = <<>>
        /\ State = last.before

C6_Witness ==
    /\ Returned("deploy")
    /\ last.args.repoPath \in ExistingRepoPaths
    /\ last.env.daemon
    /\ Exists(last.before, last.name)
    /\ last.before.containers[last.name].state = "stopped"
    /\ last.before.registry # {}
    /\ last.err

\* the state of instance n before and after the command that has returned
Was(n) == last.before.containers[n].state
Now(n) == containers[n].state

C8_StopStartOneVerb ==
    (Returned("stop") \/ Returned("start")) =>
        IF last.env.daemon /\ Exists(last.before, last.args.instanceName)
        THEN /\ Len(last.calls) = 1
             /\ last.calls[1].verb = last.op
             /\ last.calls[1].project = last.args.instanceName
             /\ last.err <=> ~last.calls[1].ok
        ELSE /\ last.err
             /\ last.calls = <<>>
             /\ State = last.before

C8_Witness ==
    /\ Returned("start")
    /\ last.env.daemon
    /\ Exists(last.before, last.args.instanceName)
    /\ Len(last.calls) = 1
    /\ ~last.calls[1].ok
    /\ last.err

\* two states with the same instances on the engine and the same registry
SameInstances(S1, S2) == Engine(S1) = Engine(S2) /\ S1.registry = S2.registry

deployAgain(first, repoPath, instanceName, basePort, e) ==
    SameInstances(first.S,
                  deployInstance(first.S, repoPath, instanceName, basePort, e).S)

stopAgain(first, instanceName, e) ==
    SameInstances(first.S, stopInstance(first.S, instanceName, e).S)

startAgain(first, instanceName, e) ==
    SameInstances(first.S, startInstance(first.S, instanceName, e).S)

removeAgain(first, instanceName, e) ==
    SameInstances(first.S, removeInstance(first.S, instanceName, e).S)

\* C9: from every reachable state, running deploy, stop, start or a confirmed
\* remove twice in succession with the same arguments (the environment
\* answering the second run as it answered the first) leaves the same
\* instances on the engine and the same registry as running it once.
C9_Idempotent ==
    AtShell =>
        /\ \A repoPath \in RepoPaths, instanceName \in RawNames,
              basePort \in BasePorts, e \in DeployEnvs :
               deployAgain(deployInstance(State, repoPath, instanceName, basePort, e),
                           repoPath, instanceName, basePort, e)
        /\ \A instanceName \in Projects, e \in RunEnvs :
               /\ stopAgain(stopInstance(State, instanceName, e), instanceName, e)
               /\ startAgain(startInstance(State, instanceName, e), instanceName, e)
        /\ \A instanceName \in Projects :
               \A e \in { x \in RemoveEnvs : x.stdin \in AcceptLines } :
                   removeAgain(removeInstance(State, instanceName, e), instanceName, e)

\* a stop has taken a running instance to stopped, and the same stop run
\* again from the state it left changes nothing
C9_Witness ==
    /\ Returned("stop")
    /\ Was(last.name) = "running"
    /\ Now(last.name) = "stopped"
    /\ stopInstance(State, last.args.instanceName, last.env).S = State

\* answers that read y or yes, in any case, with or without the end of line
ExplicitAccepts == AcceptLines \cup { <<"y">> }

\* C10: remove(name) on an existing instance makes no docker-compose run and
\* changes neither the engine nor the registry unless the answer at the
\* prompt is y or yes (in any case); any other answer ends the operation with
\* the state unchanged.
C10_NoAcceptNoEffect ==
    (/\ Returned("remove")
     /\ last.env.daemon
     /\ Exists(last.before, last.args.instanceName)
     /\ last.env.stdin \notin ExplicitAccepts) =>
        /\ last.calls = <<>>
        /\ State = last.before

C10_Witness ==
    /\ Returned("remove")
    /\ last.env.daemon
    /\ Exists(last.before, last.args.instanceName)
    /\ last.env.stdin = <<"y", "e", "p", "\n">>
    /\ last.exit = "cancelled"
    /\ State = last.before

\* the container names StoreInstanceContainers writes for an instance name
ServiceContainers(name) ==
    { name \o <<"-", "a", "p", "p">>,
      name \o <<"-", "p", "o", "s", "t", "g", "r", "e", "s">>,
      name \o <<"-", "n", "e", "o", "4", "j">> }

\* C11: in every reachable state, each instance name that has any record in
\* the registry has exactly three records, with containerName name-app,
\* name-postgres and name-neo4j, also after a registry write error.
C11_ThreeRecordsPerName ==
    \A r \in registry :
        LET mine == GetInstanceContainers(registry, r.instanceName) IN
        /\ Cardinality(mine) = 3
        /\ { x.containerName : x \in mine } = ServiceContainers(r.instanceName)

\* configurations handed to store
StoreConfigs ==
    [ InstanceName : Projects, RepoPath : Dirs, AppPort : {8080, 8090},
      PostgresPort : {8180, 8190}, Neo4jBoltPort : {8280} ]

\* the three records of a configuration
ExpectedRecords(c) ==
    { [ instanceName  |-> c.InstanceName,
        containerName |-> n,
        repoPath      |-> c.RepoPath,
        appPort       |-> c.AppPort,
        postgresPort  |-> c.PostgresPort,
        neo4jBoltPort |-> c.Neo4jBoltPort ] : n \in ServiceContainers(c.InstanceName) }

RoundTrips(st, c) ==
    /\ ~st.err
    /\ GetInstanceContainers(st.rows, c.InstanceName) = ExpectedRecords(c)

\* the configuration of the deploy that has just returned: its name, the
\* absolute repository path, the ports its containers were given
DeployedConfig ==
    [ InstanceName  |-> last.name,
      RepoPath      |-> Abs(last.args.repoPath),
      AppPort       |-> containers[last.name].ports[1],
      PostgresPort  |-> containers[last.name].ports[2],
      Neo4jBoltPort |-> containers[last.name].ports[3] ]

StoredByDeploy ==
    Returned("deploy") /\ last.exit = "ok" /\ "store" \notin last.warn

\* C12: after store(c) succeeds, listContainers(c.instanceName) returns
\* exactly three records, one per suffix -app, -postgres, -neo4j, each with
\* the repository path and the three ports of c, whatever records for that
\* name or for other names the registry held before; so it is for the store
\* of every deploy, and for every configuration stored into a reachable
\* registry.
C12_StoreListRoundTrip ==
    /\ \A c \in StoreConfigs :
           RoundTrips(StoreInstanceContainers(registry, c, -1), c)
    /\ StoredByDeploy =>
           GetInstanceContainers(registry, last.name) = ExpectedRecords(DeployedConfig)

\* a deploy has stored over older records of its name that carry other
\* ports, next to records of another name
C12_Witness ==
    /\ StoredByDeploy
    /\ \E r \in last.before.registry :
           r.instanceName = last.name /\ r.appPort # containers[last.name].ports[1]
    /\ \E r \in last.before.registry : r.instanceName # last.name
    /\ GetInstanceContainers(registry, last.name) = ExpectedRecords(DeployedConfig)

\* removeAll(name) run on the table `rows`, and run again on what it left
RemovedOnce(rows, name) == RemoveInstanceContainers(rows, name, TRUE)
RemovedTwice(rows, name) ==
    RemoveInstanceContainers(RemovedOnce(rows, name).rows, name, TRUE)

OffsetTriple(t) ==
    /\ t[2] = t[1] + 100
    /\ t[3] = t[1] + 200
    /\ t[1] # t[2] /\ t[1] # t[3] /\ t[2] # t[3]

\* C14: every port triple that deploy allocates, renders into the artifacts
\* (the ports the containers are given), persists in the registry and
\* reports satisfies dataPort = appPort + 100 and graphPort = appPort + 200,
\* with three pairwise distinct ports; what a successful deploy reports is
\* what its containers were given.
C14_PortOffsets ==
    /\ \A r \in registry :
           OffsetTriple(<<r.appPort, r.postgresPort, r.neo4jBoltPort>>)
    /\ \A n \in Projects :
           containers[n].state # "absent" => OffsetTriple(containers[n].ports)
    /\ (Returned("deploy") /\ last.exit = "ok") =>
           /\ OffsetTriple(last.report)
           /\ containers[last.name].ports = last.report

\* a deploy has succeeded on a base other than the default one, and its
\* triple is on the engine, in the registry and in the report
C14_Witness ==
    /\ StoredByDeploy
    /\ last.report[1] # DefaultBasePort
    /\ containers[last.name].ports = last.report
    /\ \E r \in registry :
           /\ r.instanceName = last.name
           /\ <<r.appPort, r.postgresPort, r.neo4jBoltPort>> = last.report

---------------------------------------------------------------------------
(* Properties of the port allocator, under SpecAlloc. *)

\* candidates of one search that the properties look at
AllocSteps == 10

\* the base a search starts from, and its j-th candidate
StartBase(basePort) == IF basePort = 0 THEN 8080 ELSE basePort
Candidate(basePort, j) == StartBase(basePort) + 10 * j

\* a listener can be opened on the port: it is a TCP port (0 standing for
\* "any") that no process holds
ListensOn(port, S) == port \in 0..65535 /\ port \notin BoundPorts(S)

TripleFree(base, S) ==
    /\ ListensOn(base, S)
    /\ ListensOn(base + 100, S)
    /\ ListensOn(base + 200, S)

\* the search looks at its first candidate, and at a later one only when it
\* is not above 65000
Observed(basePort, j) == j = 0 \/ Candidate(basePort, j) <= 65000

\* C15: allocate(basePort) is first-fit: it returns the smallest base in
\* basePort, basePort+10, basePort+20, ... whose three ports (base, base+100,
\* base+200) were all observed free, basePort itself when its triple is free,
\* and 8090 when started at 8080 with only 8080 occupied; basePort 0 behaves
\* as basePort 8080.
C15_FirstFit ==
    Returned("allocate") =>
        /\ ~last.found.err =>
               \E j \in 0..AllocSteps :
                   /\ last.found.port = Candidate(last.args.basePort, j)
                   /\ TripleFree(last.found.port, last.before)
                   /\ \A i \in 0..(j - 1) :
                          /\ Observed(last.args.basePort, i)
                          /\ ~TripleFree(Candidate(last.args.basePort, i), last.before)
        /\ last.found.err =>
               \A j \in 0..AllocSteps :
                   Observed(last.args.basePort, j) =>
                       ~TripleFree(Candidate(last.args.basePort, j), last.before)
        /\ (last.args.basePort \in {0, 8080} /\ last.before.foreign = {8080}) =>
               last.found = [ err |-> FALSE, port |-> 8090 ]
        /\ last.args.basePort = 0 =>
               last.found = FindAvailablePortSet(8080, last.before)

\* started at the default with 8080 held by another process and 8290 too:
\* the search has passed 8080 and 8090 and returned 8100
C15_Witness ==
    /\ Returned("allocate")
    /\ last.args.basePort = 0
    /\ last.before.foreign = {8080, 8290}
    /\ last.found = [ err |-> FALSE, port |-> 8100 ]

\* the bases one search has looked at
Tried == PortsTried(StartBase(last.args.basePort), last.before)

\* the increment of the search against the largest offset inside a triple
StepExceedsOffsets == PortStep > Neo4jOffset

\* C22: the increment by which allocate advances after a rejected triple is
\* larger than the largest offset inside a triple, so no port of a rejected
\* triple is a member of any later candidate triple of the same search.
C22_NoRecollision ==
    Returned("allocate") =>
        \A i \in 1..Len(Tried) : \A j \in (i + 1)..Len(Tried) :
            TupleSet(PortTriple(Tried[i])) \cap TupleSet(PortTriple(Tried[j])) = {}

\* C16: allocate returns either a triple whose three ports were all free and
\* lie within the valid port range 1..65535, or a capacity error once the
\* candidate base has passed the upper bound; it never returns a triple
\* containing a port outside the valid range.
C16_AllocInRange ==
    Returned("allocate") =>
        IF last.found.err
        THEN \E j \in 0..AllocSteps :
                 /\ Candidate(last.args.basePort, j) > 65000
                 /\ \A i \in 0..(j - 1) :
                        ~TripleFree(Candidate(last.args.basePort, i), last.before)
        ELSE /\ TripleFree(last.found.port, last.before)
             /\ \A p \in TupleSet(PortTriple(last.found.port)) : p \in 1..65535

---------------------------------------------------------------------------
(* Properties of two deploys side by side, under SpecRace. *)

Allocated(p) == inflight[p].pc = "allocated" /\ ~inflight[p].found.err

\* C17: with two deploys of different names running side by side, port
\* allocation is not mutually exclusive: whenever both have searched before
\* either one's containers are up, both hold the same candidate triple, and
\* that interleaving exists.
C17_RaceSameTriple ==
    \A p \in Procs : \A q \in Procs :
        (/\ p # q /\ Allocated(p) /\ Allocated(q)
         /\ inflight[p].name # inflight[q].name) =>
            inflight[p].found.port = inflight[q].found.port

\* two deploys of different names came out of the port search with the same
\* triple, the first one's containers are running on it, and the second
\* one's up has failed
C17_Witness ==
    \E p \in Procs : \E q \in Procs :
        /\ inflight[p].pc = "returned" /\ inflight[q].pc = "returned"
        /\ inflight[p].name # inflight[q].name
        /\ ~inflight[p].found.err
        /\ inflight[p].found.port = inflight[q].found.port
        /\ ~inflight[p].err /\ containers[inflight[p].name].state = "running"
        /\ inflight[q].err /\ inflight[q].exit = "up"
        /\ containers[inflight[q].name].ports = containers[inflight[p].name].ports

\* the process has passed the exists pre-check and its port search, and has
\* returned
PassedCheck(p) ==
    /\ inflight[p].pc = "returned"
    /\ inflight[p].passed
    /\ ~inflight[p].found.err

\* C26: two deploys of the same name side by side are not mutually excluded:
\* nothing after the exists pre-check looks at the name again, so every
\* deploy that has passed it invokes up for the name, also when the name has
\* containers by then; there is an interleaving in which both pass the check
\* and both invoke up for the same name.
C26_CheckedThenUp ==
    \A p \in Procs :
        PassedCheck(p) =>
            /\ Len(inflight[p].calls) = 1
            /\ inflight[p].calls[1].verb = "up"
            /\ inflight[p].calls[1].project = inflight[p].name

\* both processes deployed the same name, both passed the pre-check, both
\* invoked up for it, and the second did so when the first one's containers
\* were there
C26_Witness ==
    \E p \in Procs : \E q \in Procs :
        /\ p # q
        /\ PassedCheck(p) /\ PassedCheck(q)
        /\ inflight[p].name = inflight[q].name
        /\ inflight[p].calls # <<>> /\ inflight[p].calls[1].verb = "up"
        /\ inflight[q].calls # <<>> /\ inflight[q].calls[1].verb = "up"
        /\ ~inflight[p].existed /\ inflight[q].existed

---------------------------------------------------------------------------
(* Properties of deploy's artifacts and of its end, under Spec. *)

\* the temporary files a command has created and left behind
LeftBehind == tmpFiles \ last.before.tmpFiles

\* C18: whenever deploy returns, on every exit path, neither artifact it
\* created (env file, compose override) remains on the filesystem.
C18_NoArtifactRemains ==
    Returned("deploy") => LeftBehind = {}

\* a deploy whose docker-compose up succeeded and whose registry store failed
StoreFailedAfterUp ==
    /\ Returned("deploy")
    /\ last.calls # <<>>
    /\ last.calls[1] = Call("up", last.name, TRUE)
    /\ last.env.store # -1

\* C19: if the registry store fails after the executor's up succeeded, deploy
\* still returns success and only warns, invokes no executor verb after up (no
\* down, no stop), and the instance's containers stay running: exists(name)
\* is true, and the registry holds what the store had written when it failed.
C19_StoreFailureNoRollback ==
    StoreFailedAfterUp =>
        /\ ~last.err /\ last.exit = "ok" /\ "store" \in last.warn
        /\ last.calls = <<Call("up", last.name, TRUE)>>
        /\ containers[last.name].state = "running"
        /\ Exists(State, last.name)
        /\ registry = StoreInstanceContainers(last.before.registry, DeployedConfig,
                                              last.env.store).rows

\* such a deploy has returned success with its containers running and no
\* record of the name in the registry
C19_Witness ==
    /\ StoreFailedAfterUp
    /\ ~last.err
    /\ containers[last.name].state = "running"
    /\ GetInstanceContainers(registry, last.name) = {}

---------------------------------------------------------------------------
(* Properties of the instance name, under SpecName. *)

NameAlphabet == LowerSet \cup DigitChars \cup {"-"}

\* C20: for every repository path and every optionally supplied name, the
\* name deploy uses contains only lowercase alphanumerics and hyphens and has
\* neither a leading nor a trailing hyphen; when no name is supplied it is a
\* function only of the final component of the path.
C20_NameWellFormed ==
    Returned("name") =>
        /\ \A i \in 1..Len(last.name) : last.name[i] \in NameAlphabet
        /\ last.name # <<>> =>
               last.name[1] # "-" /\ last.name[Len(last.name)] # "-"
        /\ last.args.instanceName = <<>> =>
               \A q \in NamePaths :
                   Base(Abs(q)) = Base(Abs(last.args.repoPath)) =>
                       DeployName(q, <<>>) = last.name

---------------------------------------------------------------------------
(* Properties of cleanup and of the registry's frame, under Spec. *)

\* C21: cleanup never fails: it attempts the container prune and then the
\* volume prune, the volume prune also when the container prune has failed,
\* and returns success whatever the outcome of either.
C21_CleanupNeverFails ==
    Returned("cleanup") =>
        /\ ~last.err /\ last.exit = "ok"
        /\ Len(last.calls) = 2
        /\ last.calls[1].verb = "container"
        /\ last.calls[2].verb = "volume"
        /\ last.warn = (IF last.calls[1].ok THEN {} ELSE {"containers"})
                       \cup (IF last.calls[2].ok THEN {} ELSE {"volumes"})

\* a cleanup whose container prune failed has gone on to the volume prune
\* and has returned success
C21_Witness ==
    /\ Returned("cleanup")
    /\ ~last.calls[1].ok
    /\ Len(last.calls) = 2 /\ last.calls[2].verb = "volume"
    /\ ~last.err

\* the command that has returned is a deploy whose docker-compose up succeeded
UpSucceeded ==
    /\ Returned("deploy")
    /\ last.calls # <<>>
    /\ last.calls[1] = Call("up", last.name, TRUE)

\* C23: registry records of a name are created or replaced only by a deploy
\* of that name whose up succeeded (so after that success): a deploy that
\* fails for any reason, and every stop, start and cleanup, leaves the
\* registry exactly as it was.
C23_RegistryWrittenByDeployOnly ==
    ~AtShell =>
        /\ \A r \in registry \ last.before.registry :
               UpSucceeded /\ ~last.err /\ r.instanceName = last.name
        /\ (Returned("deploy") /\ last.err) => registry = last.before.registry
        /\ last.op \in {"stop", "start", "cleanup"} =>
               registry = last.before.registry

\* a deploy whose up failed after creating the containers has left the
\* records that an earlier deploy of the same name had stored
C23_Witness ==
    /\ Returned("deploy")
    /\ last.exit = "up"
    /\ GetInstanceContainers(last.before.registry, last.name) # {}
    /\ registry = last.before.registry

\* store(c) without a failure on the table `rows`, and once more on the result
StoredOnce(rows, c) == StoreInstanceContainers(rows, c, -1).rows
StoredTwice(rows, c) == StoredOnce(StoredOnce(rows, c), c)

\* at most one record under each (instanceName, containerName)
KeysUnique(rows) ==
    \A r1 \in rows : \A r2 \in rows :
        (r1.instanceName = r2.instanceName /\ r1.containerName = r2.containerName)
            => r1 = r2

\* C24: store is idempotent and keyed: for every configuration c and every
\* registry content, store(c) followed by store(c) leaves the same records as
\* one store(c), and in every reachable state there is at most one record per
\* (instanceName, containerName).
C24_StoreIdempotentKeyed ==
    /\ KeysUnique(registry)
    /\ AtShell =>
           \A c \in StoreConfigs :
               /\ StoredTwice(registry, c) = StoredOnce(registry, c)
               /\ KeysUnique(StoredOnce(registry, c))

\* the registry holds records of a name with other ports than a
\* configuration of that name: storing it replaces them, and storing it
\* again changes nothing
C24_Witness ==
    AtShell /\ \E c \in StoreConfigs :
        /\ \E r \in registry :
               r.instanceName = c.InstanceName /\ r.appPort # c.AppPort
        /\ StoredOnce(registry, c) # registry
        /\ StoredTwice(registry, c) = StoredOnce(registry, c)
        /\ GetInstanceContainers(StoredOnce(registry, c), c.InstanceName)
               = ExpectedRecords(c)

---------------------------------------------------------------------------
(* Properties of the health probe, under SpecHealth. *)

\* the polls of the deploy that has returned which reported healthy
HealthyPolls == { i \in 1..HealthAttempts : PollAt(last.env.health, i) = "up" }

\* C25: the health probe of deploy ends after at most its fixed number of
\* polls, whether each poll errors, reports not-healthy or reports healthy:
\* at the first poll that reports healthy, or else after all of them; when no
\* poll reports healthy, deploy still stores the instance in the registry and
\* returns success.
C25_ProbeBounded ==
    UpSucceeded =>
        /\ last.health.polled \in 1..HealthAttempts
        /\ ~last.health.err
        /\ last.health.healthy <=> HealthyPolls # {}
        /\ last.health.healthy =>
               /\ last.health.polled \in HealthyPolls
               /\ \A i \in HealthyPolls : last.health.polled <= i
        /\ ~last.health.healthy =>
               /\ last.health.polled = HealthAttempts
               /\ ~last.err /\ last.exit = "ok"
               /\ GetInstanceContainers(registry, last.name)
                      = ExpectedRecords(DeployedConfig)

\* a probe whose first poll failed and whose every later poll saw nothing up
\* has used all its polls, and the deploy has stored the instance and
\* returned success
C25_Witness ==
    /\ UpSucceeded
    /\ last.env.health = [ first |-> <<"error", "down">>, rest |-> "down" ]
    /\ last.health.polled = HealthAttempts
    /\ ~last.health.healthy
    /\ ~last.err
    /\ GetInstanceContainers(registry, last.name) = ExpectedRecords(DeployedConfig)

---------------------------------------------------------------------------
(* Properties of exists(name) and of isolation between names, under Spec. *)

\* one configuration of each name
VariantConfigs ==
    { c \in StoreConfigs : c.AppPort = 8090 /\ c.PostgresPort = 8190 }

\* registries to put in the place of the one a state has: none, the records
\* of one configuration, and these next to the state's own
RegistryVariants ==
    { {} } \cup { ExpectedRecords(c) : c \in VariantConfigs }
           \cup { registry \cup ExpectedRecords(c) : c \in VariantConfigs }

\* the state with another registry
WithRegistry(R) == [ State EXCEPT !.registry = R ]

\* answers of the environment in which nothing but the daemon may fail: the
\* precondition check is the first thing remove asks of it, and the second
\* thing deploy does
DeployCheckEnvs == { e \in DeployEnvs : DeployFaults(e) = BoolCount(~e.daemon) }
RemoveCheckEnvs == { e \in RemoveEnvs : RemoveFaults(e) = BoolCount(~e.daemon) }

\* the precondition checks of the four commands come out alike on two states
SameChecks(S, T) ==
    /\ \A n \in Projects, daemon \in BOOLEAN :
           InstanceExists(n, S, daemon) = InstanceExists(n, T, daemon)
    /\ \A n \in Projects, e \in RunEnvs :
           /\ (stopInstance(S, n, e).exit = "notfound")
                  = (stopInstance(T, n, e).exit = "notfound")
           /\ (startInstance(S, n, e).exit = "notfound")
                  = (startInstance(T, n, e).exit = "notfound")
    /\ \A n \in Projects, e \in RemoveCheckEnvs :
           (removeInstance(S, n, e).exit = "notfound")
               = (removeInstance(T, n, e).exit = "notfound")
    /\ \A repoPath \in RepoPaths, instanceName \in RawNames, e \in DeployCheckEnvs :
           (deployInstance(S, repoPath, instanceName, 0, e).exit = "exists")
               = (deployInstance(T, repoPath, instanceName, 0, e).exit = "exists")

\* C27: exists(name) is determined only by the engine's containers, running
\* or stopped, of name's project: two states with the same containers and
\* different registries give the same answer, so the precondition checks of
\* deploy, stop, start and remove never depend on the registry; exists(name)
\* can be false while the registry holds records of name.
C27_ExistsIgnoresRegistry ==
    AtShell =>
        /\ \A n \in Projects :
               InstanceExists(n, State, TRUE) = (containers[n].state # "absent")
        /\ \A R \in RegistryVariants : SameChecks(State, WithRegistry(R))

\* the registry holds records of a name that has no containers: exists(name)
\* is false, stop says so, and it would be the same with an empty registry
C27_Witness ==
    /\ AtShell
    /\ \E n \in Projects :
           /\ GetInstanceContainers(registry, n) # {}
           /\ containers[n].state = "absent"
           /\ ~InstanceExists(n, State, TRUE)
           /\ \A e \in RunEnvs : stopInstance(State, n, e).exit = "notfound"
           /\ ~InstanceExists(n, WithRegistry({}), TRUE)

\* C28: isolation between instances: for two distinct names a and b, stop(a),
\* start(a) and remove(a), with remove's manual sweep and its volume sweep,
\* never change b's containers or volumes, the value of exists(b), or b's
\* registry records.
C28_OtherInstanceUntouched ==
    last.op \in {"stop", "start", "remove"} =>
        \A b \in Projects \ {last.args.instanceName} :
            /\ containers[b] = last.before.containers[b]
            /\ (b \in volumes) = (b \in last.before.volumes)
            /\ Exists(State, b) = Exists(last.before, b)
            /\ GetInstanceContainers(registry, b)
                   = GetInstanceContainers(last.before.registry, b)

====
